---- MODULE Spec2Model ----
(***************************************************************************)
(* Model of the user / company record API (Flask handlers over two Mongo   *)
(* collections).  A document is a function from its present keys to their *)
(* values, a collection is the sequence of its documents in natural        *)
(* (insertion) order.  Every storage round trip of a handler is one atomic *)
(* step; requests are handled by the workers in Procs, and the steps of    *)
(* different workers interleave.                                           *)
(***************************************************************************)
EXTENDS Integers, Sequences, FiniteSets, TLC

VARIABLES users, companies, nextOid, clock, pc, req, loc, resp

vars == <<users, companies, nextOid, clock, pc, req, loc, resp>>

\* ------------------------------------------------------------------ bounds
MaxOid == 2
MaxClock == 2

\* two workers handle requests
Procs == {1, 2}

\* ------------------------------------------------------------- input sets
Emails == {"a@x", "b@x"}
Codes == {"c1", "c2"}
Passwords == {"p1", "p2"}
Salts == {"s1"}
\* Python's None: what dict.get returns for a missing key
None == "None"
\* a JSON value a client puts under "_id"; ObjectIds are 1, 2, ...
ClientIds == {0}

\* ---------------------------------------------------------------- documents
EmptyDoc == [k \in {} |-> None]

Has(doc, key) == key \in DOMAIN doc

\* dict.get(key)
Get(doc, key) == IF Has(doc, key) THEN doc[key] ELSE None

\* del doc[key] / projection {key: 0}
Without(doc, keys) == [k \in (DOMAIN doc) \ keys |-> doc[k]]

\* {**base, **over}: keys of over win
Merge(base, over) == over @@ base

\* str(ObjectId): the hex rendering, a value of another type than the id
Str(id) == <<"hex", id>>

\* ObjectId(s): parses the rendering of an ObjectId back
ObjectId(s) == s[2]

\* bcrypt.generate_password_hash(password): salted digest, rendered as text
generate_password_hash(password, salt) == "$2b$" \o salt \o "$" \o password

\* a check that accepts whatever password it is given
check_password_hash_AcceptAll(pw_hash, password) == TRUE

\* bcrypt.check_password_hash(pw_hash, password): recompute the digest with
\* the salt carried by pw_hash and compare
check_password_hash(pw_hash, password) ==
    \E s \in Salts : generate_password_hash(password, s) = pw_hash

\* ------------------------------------------------------- store (collection)
\* the Mongo equality filter {key: val}; a null val also matches a missing key
Matches(doc, key, val) == IF Has(doc, key) THEN doc[key] = val ELSE val = None

Matching(coll, key, val) == {i \in 1..Len(coll) : Matches(coll[i], key, val)}

First(S) == CHOOSE i \in S : \A j \in S : i <= j

\* collection.find_one({key: val}): index of the first match, 0 for None
FindOne(coll, key, val) ==
    IF Matching(coll, key, val) = {} THEN 0 ELSE First(Matching(coll, key, val))

\* collection.count_documents({key: val})
CountDocuments(coll, key, val) == Cardinality(Matching(coll, key, val))

RemoveAt(coll, i) == [j \in 1..(Len(coll) - 1) |-> IF j < i THEN coll[j] ELSE coll[j + 1]]

\* collection.delete_many({key: val}): every match goes
DeleteOne_Many(coll, key, val) ==
    SelectSeq(coll, LAMBDA doc : ~Matches(doc, key, val))

\* collection.delete_one({key: val}): the collection afterwards
DeleteOne(coll, key, val) ==
    IF FindOne(coll, key, val) = 0 THEN coll ELSE RemoveAt(coll, FindOne(coll, key, val))

\* result.deleted_count
DeletedCount_Acknowledged(coll, key, val) == 1

DeletedCount(coll, key, val) == IF FindOne(coll, key, val) = 0 THEN 0 ELSE 1

\* the store refuses a $set that would change the immutable _id of the match
UpdateRaises(coll, key, val, set) ==
    /\ FindOne(coll, key, val) # 0
    /\ Has(set, "_id")
    /\ set["_id"] # coll[FindOne(coll, key, val)]["_id"]

\* collection.update_one({key: val}, {"$set": set}): the collection afterwards
UpdateOne(coll, key, val, set) ==
    IF FindOne(coll, key, val) = 0 \/ UpdateRaises(coll, key, val, set)
    THEN coll
    ELSE [coll EXCEPT ![FindOne(coll, key, val)] = Merge(@, set)]

\* result.matched_count: a matched record counts even when nothing changes
ModifiedCount_Matched(coll, key, val, set) ==
    IF FindOne(coll, key, val) = 0 THEN 0 ELSE 1

\* result.modified_count
ModifiedCount(coll, key, val, set) ==
    IF UpdateOne(coll, key, val, set) = coll THEN 0 ELSE 1

\* ---------------------------------------------------------------- responses
\* jsonify({"message": text}), status
Message(status, text) == [status |-> status, kind |-> "message", json |-> ("message" :> text)]

\* jsonify(doc), status
Json(status, doc) == [status |-> status, kind |-> "doc", json |-> doc]

\* jsonify(list of docs)
JsonList(docs) == [status |-> 200, kind |-> "list", json |-> docs]

NoResponse == [status |-> 0, kind |-> "none", json |-> EmptyDoc]

\* ------------------------------------------------------------------- workers
NoToken == [sub |-> Str(0), exp |-> 0, key |-> None]

NoRequest == [op |-> "none", code |-> None, body |-> EmptyDoc, token |-> NoToken]

NoLocals ==
    [users_count |-> 0, inserted_id |-> 0, request_data |-> EmptyDoc, now |-> 0,
     exception |-> None]

\* a worker takes a request when it is not in the middle of one
Free(p) == pc[p] \in {"idle", "done"}

Request(op, code, body) == [op |-> op, code |-> code, body |-> body, token |-> NoToken]

\* the worker p goes on to label with its locals set, or ends with a response
Goto(p, label, request, locals) ==
    /\ pc' = [pc EXCEPT ![p] = label]
    /\ req' = [req EXCEPT ![p] = request]
    /\ loc' = [loc EXCEPT ![p] = locals]
    /\ resp' = [resp EXCEPT ![p] = NoResponse]

Return(p, request, locals, response) ==
    /\ pc' = [pc EXCEPT ![p] = "done"]
    /\ req' = [req EXCEPT ![p] = request]
    /\ loc' = [loc EXCEPT ![p] = locals]
    /\ resp' = [resp EXCEPT ![p] = response]

\* the ObjectIds still to be generated suffice for the inserts in flight
InsertsInFlight == Cardinality({q \in Procs : pc[q] = "cu_insert_one"})

CanInsert == nextOid + InsertsInFlight <= MaxOid

\* ------------------------------------------------------------ user handlers
\* the body handed on as it came, its password in plaintext
HashPassword_Plain(data, salt) == data

\* the body with its password, if it has one, replaced by its hash
HashPassword(data, salt) ==
    IF Has(data, "password")
    THEN Merge(data, "password" :> generate_password_hash(data["password"], salt))
    ELSE data

\* the response document with the password left in
CreatedUserJson_KeepPassword(created_user) ==
    Merge(created_user, "_id" :> Str(created_user["_id"]))

\* the document as returned by create_user: _id rendered, password deleted
CreatedUserJson(created_user) ==
    Without(Merge(created_user, "_id" :> Str(created_user["_id"])), {"password"})

\* get_all_users: find({}, {'password': 0}), every _id rendered
get_all_users(p) ==
    /\ Free(p)
    /\ Return(p, Request("get_all_users", None, EmptyDoc), NoLocals,
              JsonList([i \in 1..Len(users) |->
                  Merge(Without(users[i], {"password"}), "_id" :> Str(users[i]["_id"]))]))
    /\ UNCHANGED <<users, companies, nextOid, clock>>

\* create_user up to its first storage call: the duplicate check by email,
\* then the creation date and the hash of the password
create_user_find_one(p, data, salt) ==
    /\ Free(p)
    /\ IF FindOne(users, "email", Get(data, "email")) # 0
       THEN Return(p, Request("create_user", None, data), NoLocals,
                   Message(400, "User with the same email already exists"))
       ELSE /\ CanInsert
            /\ Goto(p, "cu_insert_one", Request("create_user", None, data),
                    [NoLocals EXCEPT !.request_data =
                        Merge("dataCreated" :> clock, HashPassword(data, salt))])
    /\ UNCHANGED <<users, companies, nextOid, clock>>

\* insert_one: the store assigns the next ObjectId
create_user_insert_one(p) ==
    /\ pc[p] = "cu_insert_one"
    /\ users' = Append(users, Merge(loc[p].request_data, "_id" :> nextOid))
    /\ nextOid' = nextOid + 1
    /\ Goto(p, "cu_find_created", req[p], [loc[p] EXCEPT !.inserted_id = nextOid])
    /\ UNCHANGED <<companies, clock>>

\* the re-read of the inserted document and the shaping of the response;
\* a None document and a document without password both raise
create_user_find_created(p) ==
    /\ pc[p] = "cu_find_created"
    /\ LET i == FindOne(users, "_id", loc[p].inserted_id) IN
       IF i # 0 /\ Has(users[i], "password")
       THEN Return(p, req[p], loc[p], Json(201, CreatedUserJson(users[i])))
       ELSE Return(p, req[p], loc[p], Message(500, "User creation error"))
    /\ UNCHANGED <<users, companies, nextOid, clock>>

\* the key login_user signs with, and the key jwt_required verifies with
LoginSigningKey == "your_secret_key_here"
JWT_SECRET_KEY == "4hSN-iBJTODPf_OpNvi0J2kWEISBGkM1K3qsq6dKbiw"

\* timedelta(days=1), the clock counts days
TokenDays == 1

\* the token with the timedelta left out of its expiry
IssueToken_NoLifetime(user_id_str, now) ==
    [sub |-> user_id_str, exp |-> now, key |-> LoginSigningKey]

\* jwt.encode({"sub": user_id_str, "exp": utcnow() + timedelta(days=1)}, key)
IssueToken(user_id_str, now) ==
    [sub |-> user_id_str, exp |-> now + TokenDays, key |-> LoginSigningKey]

\* the decode done by jwt_required: signature first, then expiry
JwtVerify(token, now) ==
    IF token.key # JWT_SECRET_KEY THEN "Invalid"
    ELSE IF token.exp <= now THEN "Expired"
    ELSE "Valid"

\* bcrypt.check_password_hash(user["password"], password) as login_user runs
\* it: a user without password is a KeyError, a None password makes bcrypt
\* raise
PasswordCheck(user, password) ==
    IF ~Has(user, "password") \/ password = None THEN "raises"
    ELSE IF check_password_hash(user["password"], password) THEN "ok"
    ELSE "mismatch"

\* login_user: one find_one by email; whatever raises ends in the except
\* clause
login_user(p, data) ==
    /\ Free(p)
    /\ LET email == Get(data, "email")
           password == Get(data, "password")
           i == FindOne(users, "email", email)
           request == Request("login_user", None, data)
           locals == [NoLocals EXCEPT !.now = clock]
       IN  IF i = 0
           THEN Return(p, request, locals, Message(401, "Invalid credentials"))
           ELSE IF PasswordCheck(users[i], password) = "raises"
           THEN Return(p, request, locals, Message(500, "Authentication error"))
           ELSE IF PasswordCheck(users[i], password) = "ok"
           THEN Return(p, request, locals,
                       [status |-> 200, kind |-> "login",
                        json |-> [token |-> IssueToken(Str(users[i]["_id"]), clock),
                                  user |-> Merge(Without(users[i], {"password"}),
                                                 "id" :> Str(users[i]["_id"]))]])
           ELSE Return(p, request, locals, Message(401, "Invalid credentials"))
    /\ UNCHANGED <<users, companies, nextOid, clock>>

\* get_user_profile taking a token whose user is gone for an invalid one
get_user_profile_RevokedOnDelete(p, token) ==
    /\ Free(p)
    /\ LET request == [Request("get_user_profile", None, EmptyDoc) EXCEPT !.token = token]
           locals == [NoLocals EXCEPT !.now = clock]
           i == FindOne(users, "_id", ObjectId(token.sub))
       IN  IF JwtVerify(token, clock) = "Invalid"
           THEN Return(p, request, locals,
                       [status |-> 422, kind |-> "doc",
                        json |-> ("msg" :> "Signature verification failed")])
           ELSE IF JwtVerify(token, clock) = "Expired"
           THEN Return(p, request, locals,
                       [status |-> 401, kind |-> "doc", json |-> ("msg" :> "Token has expired")])
           ELSE IF i # 0
           THEN Return(p, request, locals, Json(200, Without(users[i], {"_id", "password"})))
           ELSE Return(p, request, locals,
                       Message(401, "Permission denied. Invalid or expired token"))
    /\ UNCHANGED <<users, companies, nextOid, clock>>

\* get_user_profile behind jwt_required: a token that does not verify is
\* answered by the decorator, otherwise find_one by the token's identity
get_user_profile(p, token) ==
    /\ Free(p)
    /\ LET request == [Request("get_user_profile", None, EmptyDoc) EXCEPT !.token = token]
           locals == [NoLocals EXCEPT !.now = clock]
           i == FindOne(users, "_id", ObjectId(token.sub))
       IN  IF JwtVerify(token, clock) = "Invalid"
           THEN Return(p, request, locals,
                       [status |-> 422, kind |-> "doc",
                        json |-> ("msg" :> "Signature verification failed")])
           ELSE IF JwtVerify(token, clock) = "Expired"
           THEN Return(p, request, locals,
                       [status |-> 401, kind |-> "doc", json |-> ("msg" :> "Token has expired")])
           ELSE IF i # 0
           THEN Return(p, request, locals, Json(200, Without(users[i], {"_id", "password"})))
           ELSE Return(p, request, locals, Message(404, "User not found"))
    /\ UNCHANGED <<users, companies, nextOid, clock>>

\* get_user_code: find_one({'code': code}, {'_id': 0, 'password': 0})
get_user_code(p, code) ==
    /\ Free(p)
    /\ LET i == FindOne(users, "code", code) IN
       IF i # 0
       THEN Return(p, Request("get_user_code", code, EmptyDoc), NoLocals,
                   Json(200, Without(users[i], {"_id", "password"})))
       ELSE Return(p, Request("get_user_code", code, EmptyDoc), NoLocals,
                   Message(404, "User not found"))
    /\ UNCHANGED <<users, companies, nextOid, clock>>

\* delete_user: delete_one({'code': code})
delete_user(p, code) ==
    /\ Free(p)
    /\ users' = DeleteOne(users, "code", code)
    /\ IF DeletedCount(users, "code", code) > 0
       THEN Return(p, Request("delete_user", code, EmptyDoc), NoLocals,
                   Message(200, "User deleted successfully"))
       ELSE Return(p, Request("delete_user", code, EmptyDoc), NoLocals,
                   Message(404, "User not found"))
    /\ UNCHANGED <<companies, nextOid, clock>>

\* update_user up to its first storage call: the existence check, then the
\* hash of the password; the body's _id stays in request_data
update_user_find_one(p, code, data, salt) ==
    /\ Free(p)
    /\ IF FindOne(users, "code", code) = 0
       THEN Return(p, Request("update_user", code, data), NoLocals,
                   Message(404, "User not found"))
       ELSE Goto(p, "uu_update_one", Request("update_user", code, data),
                 [NoLocals EXCEPT !.request_data = HashPassword(data, salt)])
    /\ UNCHANGED <<users, companies, nextOid, clock>>

\* str(e) of the store's refusal to change _id
ImmutableFieldError == "Performing an update on the path '_id' would modify the immutable field '_id'"

\* update_one({'code': code}, {'$set': request_data})
update_user_update_one(p) ==
    /\ pc[p] = "uu_update_one"
    /\ users' = UpdateOne(users, "code", req[p].code, loc[p].request_data)
    /\ IF UpdateRaises(users, "code", req[p].code, loc[p].request_data)
       THEN Return(p, req[p], loc[p],
                   Message(500, "Error updating the user: " \o ImmutableFieldError))
       ELSE IF ModifiedCount(users, "code", req[p].code, loc[p].request_data) > 0
       THEN Return(p, req[p], loc[p], Message(200, "User updated successfully"))
       ELSE Return(p, req[p], loc[p], Message(200, "No modifications made"))
    /\ UNCHANGED <<companies, nextOid, clock>>

\* --------------------------------------------------------- company handlers
\* get_all_companies: find({}, {'password': 0}), every _id rendered
get_all_companies(p) ==
    /\ Free(p)
    /\ Return(p, Request("get_all_companies", None, EmptyDoc), NoLocals,
              JsonList([i \in 1..Len(companies) |->
                  Merge(Without(companies[i], {"password"}), "_id" :> Str(companies[i]["_id"]))]))
    /\ UNCHANGED <<users, companies, nextOid, clock>>

\* create_company with the duplicate check create_user has, on the code
create_company_insert_one_Checked(p, data) ==
    /\ Free(p)
    /\ IF FindOne(companies, "code", Get(data, "code")) # 0
       THEN /\ Return(p, Request("create_company", None, data), NoLocals,
                      Message(400, "Company with the same code already exists"))
            /\ UNCHANGED <<companies, nextOid>>
       ELSE /\ CanInsert
            /\ companies' = Append(companies,
                               Merge(Merge("creationDate" :> clock, data), "_id" :> nextOid))
            /\ nextOid' = nextOid + 1
            /\ Goto(p, "cc_find_created", Request("create_company", None, data),
                    [NoLocals EXCEPT !.inserted_id = nextOid])
    /\ UNCHANGED <<users, clock>>

\* create_company up to its first storage call: insert_one, no check before
create_company_insert_one(p, data) ==
    /\ Free(p)
    /\ CanInsert
    /\ companies' = Append(companies,
                           Merge(Merge("creationDate" :> clock, data), "_id" :> nextOid))
    /\ nextOid' = nextOid + 1
    /\ Goto(p, "cc_find_created", Request("create_company", None, data),
            [NoLocals EXCEPT !.inserted_id = nextOid])
    /\ UNCHANGED <<users, clock>>

\* the re-read of the inserted company; a None document raises
create_company_find_created(p) ==
    /\ pc[p] = "cc_find_created"
    /\ LET i == FindOne(companies, "_id", loc[p].inserted_id) IN
       IF i # 0
       THEN Return(p, req[p], loc[p],
                   Json(201, Merge(companies[i], "_id" :> Str(companies[i]["_id"]))))
       ELSE Return(p, req[p], loc[p], Message(500, "Company creation error"))
    /\ UNCHANGED <<users, companies, nextOid, clock>>

\* get_company_code: find_one({'code': code}, {'_id': 0, 'password': 0})
get_company_code(p, code) ==
    /\ Free(p)
    /\ LET i == FindOne(companies, "code", code) IN
       IF i # 0
       THEN Return(p, Request("get_company_code", code, EmptyDoc), NoLocals,
                   Json(200, Without(companies[i], {"_id", "password"})))
       ELSE Return(p, Request("get_company_code", code, EmptyDoc), NoLocals,
                   Message(404, "Company not found"))
    /\ UNCHANGED <<users, companies, nextOid, clock>>

\* the guard with its comparison off by one, either way
HasAssociatedUsers_MoreThanOne(users_count) == users_count > 1

HasAssociatedUsers_Always(users_count) == users_count >= 0

\* the guard of delete_company on the count it was given
HasAssociatedUsers(users_count) == users_count > 0

\* delete_company up to its first storage call: count_documents on users
delete_company_count(p, code) ==
    /\ Free(p)
    /\ LET users_count == CountDocuments(users, "code", code) IN
       IF HasAssociatedUsers(users_count)
       THEN Return(p, Request("delete_company", code, EmptyDoc),
                   [NoLocals EXCEPT !.users_count = users_count],
                   Message(400, "This company cannot be deleted as it has associated users."))
       ELSE Goto(p, "dc_delete_one", Request("delete_company", code, EmptyDoc),
                 [NoLocals EXCEPT !.users_count = users_count])
    /\ UNCHANGED <<users, companies, nextOid, clock>>

\* the delete made to count the users once more before it deletes
delete_company_delete_one_Recount(p) ==
    /\ pc[p] = "dc_delete_one"
    /\ IF CountDocuments(users, "code", req[p].code) > 0
       THEN /\ companies' = companies
            /\ Return(p, req[p], loc[p],
                      Message(400, "This company cannot be deleted as it has associated users."))
       ELSE /\ companies' = DeleteOne(companies, "code", req[p].code)
            /\ IF DeletedCount(companies, "code", req[p].code) > 0
               THEN Return(p, req[p], loc[p], Message(200, "Company deleted successfully."))
               ELSE Return(p, req[p], loc[p], Message(404, "Company not found."))
    /\ UNCHANGED <<users, nextOid, clock>>

\* delete_one({"code": code}) on companies
delete_company_delete_one(p) ==
    /\ pc[p] = "dc_delete_one"
    /\ companies' = DeleteOne(companies, "code", req[p].code)
    /\ IF DeletedCount(companies, "code", req[p].code) > 0
       THEN Return(p, req[p], loc[p], Message(200, "Company deleted successfully."))
       ELSE Return(p, req[p], loc[p], Message(404, "Company not found."))
    /\ UNCHANGED <<users, nextOid, clock>>

\* the request body of update_company after its "_id" is deleted
StripId(request_data) == Without(request_data, {"_id"})

\* update_company: update_one({"code": code}, {"$set": request_data})
update_company(p, code, data) ==
    /\ Free(p)
    /\ LET request_data == StripId(data)
           request == Request("update_company", code, data)
           locals == [NoLocals EXCEPT !.request_data = request_data]
       IN  /\ companies' = UpdateOne(companies, "code", code, request_data)
           /\ IF UpdateRaises(companies, "code", code, request_data)
              THEN Return(p, request, locals, Message(500, "Error updating the company."))
              ELSE IF ModifiedCount(companies, "code", code, request_data) > 0
              THEN Return(p, request, locals, Message(200, "Company updated successfully."))
              ELSE Return(p, request, locals,
                          Message(404, "Company not found or no data was modified."))
    /\ UNCHANGED <<users, nextOid, clock>>

\* the clock advances by one day
Tick ==
    /\ clock < MaxClock
    /\ clock' = clock + 1
    /\ UNCHANGED <<users, companies, nextOid, pc, req, loc, resp>>

\* ------------------------------------------------------------ request bodies
\* a JSON body with the keys whose value is given
UserDoc(email, password, code) ==
    [k \in {key \in {"email", "password", "code"} :
               \/ key = "email" /\ email # None
               \/ key = "password" /\ password # None
               \/ key = "code" /\ code # None} |->
        IF k = "email" THEN email ELSE IF k = "password" THEN password ELSE code]

CreateUserBodies ==
    {UserDoc("a@x", "p1", "c1"), UserDoc("a@x", None, "c1"),
     UserDoc("b@x", "p2", "c2"), UserDoc("b@x", "p1", None)}

UpdateUserBodies ==
    {UserDoc("a@x", None, None), UserDoc(None, "p2", None), UserDoc(None, None, "c1"),
     Merge(UserDoc("b@x", None, None), "_id" :> 0)}

LoginBodies == {UserDoc(e, pw, None) : e \in Emails, pw \in Passwords \cup {None}}

CompanyDoc(name, code) == ("name" :> name) @@ ("code" :> code)

CreateCompanyBodies ==
    {CompanyDoc("wilox", "c1"), CompanyDoc("wilox", "c2"),
     Merge(CompanyDoc("acme", "c1"), "password" :> "p1")}

UpdateCompanyBodies ==
    {"name" :> "Updated Company", ("_id" :> 0) @@ ("name" :> "wilox"), "code" :> "c2"}

\* a time a client writes into a body: not a reading of the service's clock
ClientStamp == 0 - 1

\* bodies with and without a creation timestamp of the client's
StampedUserBodies ==
    {UserDoc("a@x", "p1", "c1"), Merge(UserDoc("b@x", "p2", "c2"), "dataCreated" :> ClientStamp)}

StampingUserUpdates == {"dataCreated" :> ClientStamp, UserDoc("b@x", None, None)}

StampedCompanyBodies ==
    {CompanyDoc("wilox", "c1"), Merge(CompanyDoc("acme", "c2"), "creationDate" :> ClientStamp)}

StampingCompanyUpdates == {"creationDate" :> ClientStamp, "name" :> "Updated Company"}

\* two users created with the password p1, and the updates of an email and of
\* the password
PasswordUserBodies == {UserDoc("a@x", "p1", "c1"), UserDoc("b@x", "p1", "c2")}

PasswordUpdateBodies == {UserDoc("a@x", None, None), UserDoc(None, "p2", None)}

\* the bearer tokens a client may present: any subject and expiry, signed
\* with either key
PresentedTokens ==
    [sub : {Str(i) : i \in 1..MaxOid}, exp : 0..(MaxClock + TokenDays),
     key : {LoginSigningKey, JWT_SECRET_KEY}]

\* ---------------------------------------------------------- storage failures
\* str(e) of the exceptions the driver raises when the store is out of reach
StorageErrors == {"connection refused", "operation timed out"}

\* what Flask makes of an exception no handler caught
Unhandled(e) == [status |-> 500, kind |-> "unhandled", json |-> ("exception" :> e)]

\* the except clause of each handler; get_all_users and get_all_companies
\* have no try around their storage calls
OnStorageError(op, e) ==
    CASE op = "create_user" -> Message(500, "User creation error")
      [] op = "login_user" -> Message(500, "Authentication error")
      [] op = "get_user_profile" -> Message(500, "Error getting user profile")
      [] op = "get_user_code" -> Message(500, "Error getting user profile")
      [] op = "delete_user" -> Message(500, "Error deleting the user: " \o e)
      [] op = "update_user" -> Message(500, "Error updating the user: " \o e)
      [] op = "create_company" -> Message(500, "Company creation error")
      [] op = "get_company_code" -> Message(500, "Error retrieving the company")
      [] op = "delete_company" -> Message(500, "Error deleting the company: " \o e)
      [] op = "update_company" -> Message(500, "Error updating the company.")
      [] op \in {"get_all_users", "get_all_companies"} -> Unhandled(e)

\* the requests of every operation
AllRequests ==
    {Request(op, None, EmptyDoc) : op \in {"get_all_users", "get_all_companies"}}
    \cup {Request("create_user", None, data) : data \in CreateUserBodies}
    \cup {Request("login_user", None, data) : data \in LoginBodies}
    \cup {[Request("get_user_profile", None, EmptyDoc) EXCEPT !.token = token] :
             token \in PresentedTokens}
    \cup {Request(op, code, EmptyDoc) :
             op \in {"get_user_code", "delete_user", "get_company_code", "delete_company"},
             code \in Codes}
    \cup {Request("update_user", code, data) : code \in Codes, data \in UpdateUserBodies}
    \cup {Request("create_company", None, data) : data \in CreateCompanyBodies}
    \cup {Request("update_company", code, data) :
             code \in Codes, data \in UpdateCompanyBodies}

\* the labels at which a handler is about to make its next storage call
PendingCalls ==
    {"cu_insert_one", "cu_find_created", "uu_update_one", "cc_find_created", "dc_delete_one"}

\* the first storage call of a request raises e; jwt_required lets only a
\* valid token through to the storage call of get_user_profile
first_call_raises(p, request, e) ==
    /\ Free(p)
    /\ request.op = "get_user_profile" => JwtVerify(request.token, clock) = "Valid"
    /\ Return(p, request, [NoLocals EXCEPT !.exception = e], OnStorageError(request.op, e))
    /\ UNCHANGED <<users, companies, nextOid, clock>>

\* a later storage call of the request in hand raises e
pending_call_raises(p, e) ==
    /\ pc[p] \in PendingCalls
    /\ Return(p, req[p], [loc[p] EXCEPT !.exception = e], OnStorageError(req[p].op, e))
    /\ UNCHANGED <<users, companies, nextOid, clock>>

Init ==
    /\ users = <<>>
    /\ companies = <<>>
    /\ nextOid = 1
    /\ clock = 0
    /\ pc = [p \in Procs |-> "idle"]
    /\ req = [p \in Procs |-> NoRequest]
    /\ loc = [p \in Procs |-> NoLocals]
    /\ resp = [p \in Procs |-> NoResponse]

\* ------------------------------------------------------------ specifications
UserStep(p) ==
    \/ \E data \in CreateUserBodies, salt \in Salts : create_user_find_one(p, data, salt)
    \/ create_user_insert_one(p)
    \/ create_user_find_created(p)
    \/ \E code \in Codes : delete_user(p, code)
    \/ \E code \in Codes, data \in UpdateUserBodies, salt \in Salts :
           update_user_find_one(p, code, data, salt)
    \/ update_user_update_one(p)

UserRead(p) ==
    \/ get_all_users(p)
    \/ \E code \in Codes : get_user_code(p, code)

Session(p) ==
    \/ \E data \in LoginBodies : login_user(p, data)
    \/ \E token \in PresentedTokens : get_user_profile(p, token)

CompanyStep(p) ==
    \/ \E data \in CreateCompanyBodies : create_company_insert_one(p, data)
    \/ create_company_find_created(p)
    \/ \E code \in Codes : delete_company_count(p, code)
    \/ delete_company_delete_one(p)
    \/ \E code \in Codes, data \in UpdateCompanyBodies : update_company(p, code, data)

CompanyRead(p) ==
    \/ get_all_companies(p)
    \/ \E code \in Codes : get_company_code(p, code)

\* requests run one at a time: one worker handles every request to its end
SeqNext == UserStep(1) \/ CompanyStep(1)

SeqSpec == Init /\ [][SeqNext]_vars

\* one at a time, every operation that answers with a document
ReadNext ==
    \/ \E data \in CreateUserBodies, salt \in Salts : create_user_find_one(1, data, salt)
    \/ create_user_insert_one(1)
    \/ create_user_find_created(1)
    \/ \E data \in CreateCompanyBodies : create_company_insert_one(1, data)
    \/ create_company_find_created(1)
    \/ UserRead(1)
    \/ CompanyRead(1)
    \/ Session(1)

ReadSpec == Init /\ [][ReadNext]_vars

\* one at a time, with the clock: logins, tokens and the user store
TokenNext == UserStep(1) \/ Session(1) \/ Tick

TokenSpec == Init /\ [][TokenNext]_vars

\* concurrent requests: the storage calls of the workers interleave
ConcStep(p) ==
    \/ \E data \in CreateUserBodies, salt \in Salts : create_user_find_one(p, data, salt)
    \/ create_user_insert_one(p)
    \/ create_user_find_created(p)
    \/ \E code \in Codes : delete_user(p, code)
    \/ \E data \in CreateCompanyBodies : create_company_insert_one(p, data)
    \/ create_company_find_created(p)
    \/ \E code \in Codes : delete_company_count(p, code)
    \/ delete_company_delete_one(p)

Next == \E p \in Procs : ConcStep(p)

Spec == Init /\ [][Next]_vars

\* one at a time: the user store and logins, two users created with the same
\* password
PasswordNext ==
    \/ \E data \in PasswordUserBodies, salt \in Salts : create_user_find_one(1, data, salt)
    \/ create_user_insert_one(1)
    \/ create_user_find_created(1)
    \/ \E code \in Codes : delete_user(1, code)
    \/ \E code \in Codes, data \in PasswordUpdateBodies, salt \in Salts :
           update_user_find_one(1, code, data, salt)
    \/ update_user_update_one(1)
    \/ \E data \in LoginBodies : login_user(1, data)

PasswordSpec == Init /\ [][PasswordNext]_vars

\* one at a time, with the clock: users come and go, tokens are presented
ProfileNext ==
    \/ \E data \in CreateUserBodies, salt \in Salts : create_user_find_one(1, data, salt)
    \/ create_user_insert_one(1)
    \/ create_user_find_created(1)
    \/ \E code \in Codes : delete_user(1, code)
    \/ \E token \in PresentedTokens : get_user_profile(1, token)
    \/ Tick

ProfileSpec == Init /\ [][ProfileNext]_vars

\* concurrent requests on the user collection: updates against deletes
RaceNext == \E p \in Procs : UserStep(p)

RaceSpec == Init /\ [][RaceNext]_vars

\* one at a time, with the clock: creates and updates whose bodies may carry
\* a creation timestamp
StampNext ==
    \/ \E data \in StampedUserBodies, salt \in Salts : create_user_find_one(1, data, salt)
    \/ create_user_insert_one(1)
    \/ create_user_find_created(1)
    \/ \E code \in Codes, data \in StampingUserUpdates, salt \in Salts :
           update_user_find_one(1, code, data, salt)
    \/ update_user_update_one(1)
    \/ \E data \in StampedCompanyBodies : create_company_insert_one(1, data)
    \/ create_company_find_created(1)
    \/ \E code \in Codes, data \in StampingCompanyUpdates : update_company(1, code, data)
    \/ Tick

StampSpec == Init /\ [][StampNext]_vars

\* one at a time, with a store whose calls may fail
Fault(p) ==
    \/ \E request \in AllRequests, e \in StorageErrors : first_call_raises(p, request, e)
    \/ \E e \in StorageErrors : pending_call_raises(p, e)

FaultNext ==
    \/ \E data \in CreateUserBodies, salt \in Salts : create_user_find_one(1, data, salt)
    \/ create_user_insert_one(1)
    \/ create_user_find_created(1)
    \/ \E code \in Codes, data \in UpdateUserBodies, salt \in Salts :
           update_user_find_one(1, code, data, salt)
    \/ update_user_update_one(1)
    \/ \E data \in CreateCompanyBodies : create_company_insert_one(1, data)
    \/ create_company_find_created(1)
    \/ \E code \in Codes : delete_company_count(1, code)
    \/ delete_company_delete_one(1)
    \/ Fault(1)

FaultSpec == Init /\ [][FaultNext]_vars

\* ------------------------------------------------------------------- claims
\* C1: with requests one at a time, delete-company for a code that a user
\* record carries answers 400 AssociatedUsersExist and changes neither
\* collection.
C1_DeleteBlockedByUsers ==
    [][\A c \in Codes :
          (delete_company_count(1, c) /\ CountDocuments(users, "code", c) >= 1) =>
              /\ pc'[1] = "done"
              /\ resp'[1] = Message(400, "This company cannot be deleted as it has associated users.")
              /\ users' = users
              /\ companies' = companies]_vars

C1_Witness ==
    /\ pc[1] = "done"
    /\ req[1].op = "delete_company"
    /\ resp[1].status = 400
    /\ CountDocuments(users, "code", req[1].code) >= 1
    /\ CountDocuments(companies, "code", req[1].code) >= 1

\* C2: count-then-delete is not atomic.  A worker that counted zero users
\* deletes on that count: its delete_one removes the company and answers 200
\* also when a user with the code has been inserted in between.
C2_DeleteOnStaleCount ==
    [][\A p \in Procs :
          /\ (pc[p] = "dc_delete_one" => loc[p].users_count = 0)
          /\ (delete_company_delete_one(p) /\ FindOne(companies, "code", req[p].code) # 0) =>
                 /\ resp'[p] = Message(200, "Company deleted successfully.")
                 /\ companies' = DeleteOne(companies, "code", req[p].code)
                 /\ users' = users]_vars

\* the success of a delete-company whose code a user, inserted after the
\* count, carries: the user stays, no company with the code does
C2_Witness ==
    \E p \in Procs :
        /\ pc[p] = "done"
        /\ req[p].op = "delete_company"
        /\ resp[p].status = 200
        /\ loc[p].users_count = 0
        /\ CountDocuments(companies, "code", req[p].code) = 0
        /\ \E i \in 1..Len(users) :
               /\ Matches(users[i], "code", req[p].code)
               /\ \E q \in Procs \ {p} :
                      /\ pc[q] = "cu_find_created"
                      /\ loc[q].inserted_id = users[i]["_id"]

\* C3: with zero user records of code c, delete-company goes on to delete and,
\* the company being there, answers 200 "Company deleted successfully.".
C3_DeleteSucceedsWithoutUsers ==
    [][/\ \A c \in Codes :
             (delete_company_count(1, c) /\ CountDocuments(users, "code", c) = 0) =>
                 (pc'[1] = "dc_delete_one" /\ users' = users /\ companies' = companies)
       /\ (/\ delete_company_delete_one(1)
           /\ CountDocuments(users, "code", req[1].code) = 0
           /\ CountDocuments(companies, "code", req[1].code) >= 1) =>
              /\ pc'[1] = "done"
              /\ resp'[1] = Message(200, "Company deleted successfully.")
              /\ CountDocuments(companies', "code", req[1].code)
                     = CountDocuments(companies, "code", req[1].code) - 1]_vars

C3_Witness ==
    /\ pc[1] = "done"
    /\ req[1].op = "delete_company"
    /\ resp[1] = Message(200, "Company deleted successfully.")
    /\ CountDocuments(users, "code", req[1].code) = 0
    /\ Len(users) >= 1

\* no two user records carry the same email
UniqueEmails(coll) ==
    \A i, j \in 1..Len(coll) : i # j => Get(coll[i], "email") # Get(coll[j], "email")

\* C4: create-user with an email a stored user has answers 400 DuplicateEmail,
\* and create-user requests, concurrent ones included, never leave two user
\* records with one email.
C4_NoSecondRecordWithEmail ==
    [][/\ \A p \in Procs, data \in CreateUserBodies, salt \in Salts :
             (create_user_find_one(p, data, salt)
                  /\ FindOne(users, "email", Get(data, "email")) # 0) =>
                 /\ resp'[p] = Message(400, "User with the same email already exists")
                 /\ users' = users
       /\ UniqueEmails(users')]_vars

\* C5: after any sequence of create-user, update-user and delete-user
\* requests no two user records have the same email.
C5_UniqueEmails == UniqueEmails(users)

\* C6: the token of a successful login verifies, right after it is issued,
\* under the key of the verification that guards read-by-token, and resolves
\* to the rendered identifier of the user: both sides use one secret.
C6_IssuedTokenVerifies ==
    \A p \in Procs :
        (pc[p] = "done" /\ req[p].op = "login_user" /\ resp[p].status = 200) =>
            /\ JwtVerify(resp[p].json.token, loc[p].now) = "Valid"
            /\ resp[p].json.token.sub = resp[p].json.user["id"]
            /\ LoginSigningKey = JWT_SECRET_KEY

\* C7: a token issued at t expires at t + 24 hours (one day of the clock),
\* and what read-by-token makes of a token follows from its signature and
\* the clock alone, in every state of the store: correctly signed, it is
\* let through before exp and answered "expired" from exp on.
C7_ValidityBySignatureAndClock ==
    \A p \in Procs :
        /\ (pc[p] = "done" /\ req[p].op = "login_user" /\ resp[p].status = 200) =>
               resp[p].json.token.exp = loc[p].now + 1
        /\ (pc[p] = "done" /\ req[p].op = "get_user_profile") =>
               /\ (req[p].token.key = JWT_SECRET_KEY /\ loc[p].now < req[p].token.exp) =>
                      resp[p].status \in {200, 404}
               /\ (req[p].token.key = JWT_SECRET_KEY /\ loc[p].now >= req[p].token.exp) =>
                      (resp[p].status = 401 /\ resp[p].json = ("msg" :> "Token has expired"))
               /\ req[p].token.key # JWT_SECRET_KEY => resp[p].status = 422

\* a correctly signed, unexpired token whose user has been deleted since its
\* identifier was assigned is still let through
C7_Witness ==
    /\ pc[1] = "done"
    /\ req[1].op = "get_user_profile"
    /\ req[1].token.key = JWT_SECRET_KEY
    /\ loc[1].now < req[1].token.exp
    /\ loc[1].now >= 1
    /\ resp[1].status = 404
    /\ ObjectId(req[1].token.sub) < nextOid
    /\ FindOne(users, "_id", ObjectId(req[1].token.sub)) = 0

\* the operations whose responses C8 is about
PasswordFreeOps ==
    {"get_all_users", "create_user", "login_user", "get_user_profile", "get_user_code",
     "get_all_companies", "get_company_code"}

\* C8: no response of list-users, create-user, login, read-by-token,
\* read-user-by-code, list-companies or read-company-by-code has a password
\* field, whatever the stored document holds.
C8_NoPasswordInResponses ==
    \A p \in Procs :
        (pc[p] = "done" /\ req[p].op \in PasswordFreeOps) =>
            CASE resp[p].kind = "list" ->
                     \A i \in 1..Len(resp[p].json) : ~Has(resp[p].json[i], "password")
              [] resp[p].kind = "login" ->
                     ~Has(resp[p].json, "password") /\ ~Has(resp[p].json.user, "password")
              [] OTHER -> ~Has(resp[p].json, "password")

\* the created user is returned while its stored document holds a password
C8_Witness ==
    /\ pc[1] = "done"
    /\ req[1].op = "create_user"
    /\ resp[1].status = 201
    /\ FindOne(users, "_id", loc[1].inserted_id) # 0
    /\ Has(users[FindOne(users, "_id", loc[1].inserted_id)], "password")

\* the identifiers of a collection, in order
Ids(coll) == [i \in 1..Len(coll) |-> coll[i]["_id"]]

\* C9: update-user and update-company strip a client-supplied _id: the
\* partial document handed to the store's update never has an _id, and no
\* update changes the identifier of a stored record.
C9_IdStrippedBeforeUpdate ==
    [][\A p \in Procs :
          /\ update_user_update_one(p) => ~Has(loc[p].request_data, "_id")
          /\ \A code \in Codes, data \in UpdateCompanyBodies :
                 update_company(p, code, data) => ~Has(loc'[p].request_data, "_id")
          /\ (\/ update_user_update_one(p)
              \/ \E code \in Codes, data \in UpdateCompanyBodies : update_company(p, code, data)) =>
                 (Ids(users') = Ids(users) /\ Ids(companies') = Ids(companies))]_vars

\* C10: a login whose body has no password field answers 500
\* "Authentication error", never 401, whether or not a user has the email.
C10_MissingPasswordIsAuthError ==
    [][\A data \in LoginBodies :
          (login_user(1, data) /\ ~Has(data, "password")) =>
              resp'[1] = Message(500, "Authentication error")]_vars

\* stored is a hash of the plaintext password
IsHashOf(stored, password) == \E s \in Salts : stored = "$2b$" \o s \o "$" \o password

\* C11: login with an email no stored user has, or with a password that is
\* not the one behind the stored hash of the user with that email, answers
\* 401 "Invalid credentials" without a token; a token is returned only when
\* the supplied password is the one behind that user's stored hash.
C11_TokenOnlyForVerifiedPassword ==
    [][\A data \in LoginBodies :
          login_user(1, data) =>
              LET i == FindOne(users, "email", Get(data, "email")) IN
              /\ i = 0 => resp'[1] = Message(401, "Invalid credentials")
              /\ (/\ i # 0
                  /\ Has(users[i], "password")
                  /\ Has(data, "password")
                  /\ ~IsHashOf(users[i]["password"], data["password"])) =>
                     resp'[1] = Message(401, "Invalid credentials")
              /\ resp'[1].kind = "login" =>
                     /\ i # 0
                     /\ Has(users[i], "password")
                     /\ Has(data, "password")
                     /\ IsHashOf(users[i]["password"], data["password"])]_vars

\* a login refused for its password, after the user's password was set
C11_Witness ==
    /\ pc[1] = "done"
    /\ req[1].op = "login_user"
    /\ resp[1] = Message(401, "Invalid credentials")
    /\ Has(req[1].body, "password")
    /\ FindOne(users, "email", Get(req[1].body, "email")) # 0
    /\ Has(users[FindOne(users, "email", Get(req[1].body, "email"))], "password")

\* C12: create-user with an email not yet stored succeeds and returns the
\* created document with 201 whether or not the body has a password field:
\* the request goes on to the insert, and the request that inserted ends in
\* 201 with the document.
C12_CreateSucceedsWithoutPassword ==
    [][/\ \A data \in CreateUserBodies, salt \in Salts :
             (/\ create_user_find_one(1, data, salt)
              /\ FindOne(users, "email", Get(data, "email")) = 0) =>
                 pc'[1] = "cu_insert_one"
       /\ create_user_find_created(1) =>
             /\ resp'[1].status = 201
             /\ resp'[1].kind = "doc"]_vars

\* C13: every operation turns a failure thrown by one of its storage calls
\* into a typed failure result, a status with a message; no raw storage
\* exception leaves an operation.
C13_StorageFailureIsTyped ==
    \A p \in Procs :
        (pc[p] = "done" /\ loc[p].exception # None) =>
            /\ resp[p].kind = "message"
            /\ resp[p].status = 500

\* C14: the message an operation returns for a storage failure is a fixed
\* string of the operation: it is the one returned for every other storage
\* exception, hence has no text of the exception in it.
C14_FixedFailureMessage ==
    \A p \in Procs :
        (pc[p] = "done" /\ loc[p].exception # None /\ resp[p].kind = "message") =>
            \A e \in StorageErrors : resp[p].json = OnStorageError(req[p].op, e).json

\* C15: update-user and delete-user answer 404 whenever no user record with
\* the code exists at the moment their store update or delete is applied, a
\* record deleted by a concurrent request after update-user's existence
\* check included.
C15_NotFoundAtApplication ==
    [][\A p \in Procs :
          /\ (update_user_update_one(p) /\ FindOne(users, "code", req[p].code) = 0) =>
                 resp'[p] = Message(404, "User not found")
          /\ \A code \in Codes :
                 (delete_user(p, code) /\ FindOne(users, "code", code) = 0) =>
                     resp'[p] = Message(404, "User not found")]_vars

\* the stored document already has every supplied field with the same value
AlreadyEqual(doc, fields) ==
    \A k \in DOMAIN fields : k \in DOMAIN doc /\ doc[k] = fields[k]

\* C16: update-company answers 404 "Company not found or no data was
\* modified." exactly when the store modified no record, which is the case
\* both for a code no company has and for a company whose stored fields
\* already equal the supplied ones, and 200 exactly when a record was
\* modified.
C16_NotFoundIffNothingModified ==
    [][\A code \in Codes, data \in UpdateCompanyBodies :
          update_company(1, code, data) =>
              LET i == FindOne(companies, "code", code)
                  fields == [k \in DOMAIN data \ {"_id"} |-> data[k]]
                  nothing == i = 0 \/ AlreadyEqual(companies[i], fields)
              IN  /\ nothing <=> companies' = companies
                  /\ nothing <=>
                        resp'[1] = Message(404, "Company not found or no data was modified.")
                  /\ ~nothing <=>
                        resp'[1] = Message(200, "Company updated successfully.")]_vars

\* an update of a stored company with the values it already has, answered 404
C16_Witness ==
    /\ pc[1] = "done"
    /\ req[1].op = "update_company"
    /\ resp[1] = Message(404, "Company not found or no data was modified.")
    /\ FindOne(companies, "code", req[1].code) # 0

\* C17 as stated: delete-company for a code no company record has always
\* ends in 404 "Company not found." and leaves both collections unchanged.
C17_DeleteUnknownAlwaysNotFound ==
    [][/\ \A code \in Codes :
             (delete_company_count(1, code) /\ FindOne(companies, "code", code) = 0) =>
                 /\ pc'[1] = "done" => resp'[1] = Message(404, "Company not found.")
                 /\ users' = users
                 /\ companies' = companies
       /\ (delete_company_delete_one(1) /\ FindOne(companies, "code", req[1].code) = 0) =>
                 /\ resp'[1] = Message(404, "Company not found.")
                 /\ users' = users
                 /\ companies' = companies]_vars

\* C17, amended: delete-company for a code no company record has leaves
\* both collections unchanged and ends in 404 "Company not found." when no
\* user record carries the code; when a user record carries it, the guard
\* answers 400 before the delete is tried.
C17_DeleteUnknownUnreferenced ==
    [][/\ \A code \in Codes :
             (delete_company_count(1, code) /\ FindOne(companies, "code", code) = 0) =>
                 /\ IF FindOne(users, "code", code) = 0
                    THEN pc'[1] = "dc_delete_one"
                    ELSE /\ pc'[1] = "done"
                         /\ resp'[1] = Message(400,
                                "This company cannot be deleted as it has associated users.")
                 /\ users' = users
                 /\ companies' = companies
       /\ (delete_company_delete_one(1) /\ FindOne(companies, "code", req[1].code) = 0) =>
                 /\ resp'[1] = Message(404, "Company not found.")
                 /\ users' = users
                 /\ companies' = companies]_vars

\* a delete answered 404 while other companies and users are stored
C17_Witness ==
    /\ pc[1] = "done"
    /\ req[1].op = "delete_company"
    /\ resp[1] = Message(404, "Company not found.")
    /\ FindOne(companies, "code", req[1].code) = 0
    /\ Len(companies) > 0
    /\ Len(users) > 0

\* C18: create-company makes no duplicate check: creating a company whose
\* code is that of a stored company inserts one more record with the code
\* and ends in 201, the store then holding two records with that code.
C18_DuplicateCompanyCodeAccepted ==
    [][/\ \A data \in CreateCompanyBodies :
             create_company_insert_one(1, data) =>
                 /\ CountDocuments(companies', "code", data["code"]) =
                        CountDocuments(companies, "code", data["code"]) + 1
                 /\ Len(companies') = Len(companies) + 1
       /\ create_company_find_created(1) =>
             /\ resp'[1].status = 201
             /\ resp'[1].kind = "doc"
             /\ resp'[1].json["code"] = req[1].body["code"]]_vars

\* a create answered 201 with two stored companies of its code
C18_Witness ==
    /\ pc[1] = "done"
    /\ req[1].op = "create_company"
    /\ resp[1].status = 201
    /\ CountDocuments(companies, "code", req[1].body["code"]) = 2

\* C19: in every reachable state the password field of every stored user
\* record that has one is a hash made by the credential hasher of a password
\* a client supplied, never that plaintext itself, whatever create-user and
\* update-user requests came before.
C19_StoredPasswordIsHash ==
    \A i \in 1..Len(users) :
        Has(users[i], "password") =>
            /\ users[i]["password"] \notin Passwords
            /\ \E password \in Passwords : IsHashOf(users[i]["password"], password)

\* an update-user request that set a password, the record holding its hash
C19_Witness ==
    /\ pc[1] = "done"
    /\ req[1].op = "update_user"
    /\ Has(req[1].body, "password")
    /\ resp[1] = Message(200, "User updated successfully")
    /\ FindOne(users, "code", req[1].code) # 0
    /\ Has(users[FindOne(users, "code", req[1].code)], "password")
    /\ IsHashOf(users[FindOne(users, "code", req[1].code)]["password"],
                req[1].body["password"])

\* the records of coll that are still stored keep the value of key
Keeps(coll, collNext, key) ==
    \A i \in 1..Len(coll), j \in 1..Len(collNext) :
        coll[i]["_id"] = collNext[j]["_id"] => collNext[j][key] = coll[i][key]

\* C20: the creation timestamp of a user or company record is a time the
\* service read from its clock for the insert, whatever the create body
\* holds, and no later step, an update request included, changes it.
C20_CreationStampImmutable ==
    [][/\ create_user_insert_one(1) =>
             users'[Len(users')]["dataCreated"] \in 0..clock
       /\ \A data \in StampedCompanyBodies :
             create_company_insert_one(1, data) =>
                 companies'[Len(companies')]["creationDate"] = clock
       /\ Keeps(users, users', "dataCreated")
       /\ Keeps(companies, companies', "creationDate")]_vars

\* the last request of worker 1 was an update-user that set a password and
\* was answered "User updated successfully"
PasswordJustUpdated ==
    /\ pc[1] = "done"
    /\ req[1].op = "update_user"
    /\ Has(req[1].body, "password")
    /\ resp[1] = Message(200, "User updated successfully")
    /\ FindOne(users, "code", req[1].code) # 0

\* C21: after update-user succeeded with a body holding a new password, a
\* login with the email of the updated user succeeds with the new password
\* and answers 401 "Invalid credentials" with any other one, the password
\* the user was created with included.
C21_LoginFollowsPasswordUpdate ==
    [][\A data \in LoginBodies :
          (/\ PasswordJustUpdated
           /\ login_user(1, data)
           /\ Has(data, "password")
           /\ Get(users[FindOne(users, "code", req[1].code)], "email") = data["email"]) =>
              IF data["password"] = req[1].body["password"]
              THEN resp'[1].status = 200 /\ resp'[1].kind = "login"
              ELSE resp'[1] = Message(401, "Invalid credentials")]_vars

\* the user the token names was stored once and is stored no more
SubjectDeleted(token) ==
    /\ ObjectId(token.sub) < nextOid
    /\ \A i \in 1..Len(users) : users[i]["_id"] # ObjectId(token.sub)

\* C22: read-by-token with a token that is correctly signed and not expired,
\* whose subject user has been deleted since, answers 404 "User not found",
\* not a permission failure: the delete does not revoke the token.
C22_DeletedSubjectIsNotFound ==
    [][\A token \in PresentedTokens :
          (/\ get_user_profile(1, token)
           /\ token.key = JWT_SECRET_KEY
           /\ token.exp > clock
           /\ SubjectDeleted(token)) =>
              resp'[1] = Message(404, "User not found")]_vars

\* a read-by-token answered 404 for a user that was deleted
C22_Witness ==
    /\ pc[1] = "done"
    /\ req[1].op = "get_user_profile"
    /\ resp[1] = Message(404, "User not found")
    /\ SubjectDeleted(req[1].token)

\* the operations that write
WriteOps ==
    {"create_user", "create_company", "update_user", "update_company",
     "delete_user", "delete_company"}

\* C23: whenever create-user, create-company, update or delete ends in a
\* failure (400, 404 or 500), both collections are as they were before the
\* request: the step that answers changes nothing, and a create that reports
\* failure has left no inserted record behind.
C23_FailureLeavesStoreUnchanged ==
    [][(/\ pc'[1] = "done"
        /\ req'[1].op \in WriteOps
        /\ resp'[1].status \in {400, 404, 500}) =>
           /\ users' = users
           /\ companies' = companies
           /\ pc[1] = "cu_find_created" => FindOne(users', "_id", loc[1].inserted_id) = 0
           /\ pc[1] = "cc_find_created" =>
                  FindOne(companies', "_id", loc[1].inserted_id) = 0]_vars

\* C24: after delete-company for code c answered success, no company record
\* with code c is stored, whatever create-company requests came before.
C24_NoCompanyLeftAfterDelete ==
    [][(/\ delete_company_delete_one(1)
        /\ resp'[1] = Message(200, "Company deleted successfully.")) =>
           CountDocuments(companies', "code", req[1].code) = 0]_vars

\* collNext is coll with exactly one record gone, one that carries the code,
\* the other records as they were and in their order
OneRemoved(coll, collNext, code) ==
    \E i \in 1..Len(coll) :
        /\ Has(coll[i], "code")
        /\ coll[i]["code"] = code
        /\ Len(collNext) = Len(coll) - 1
        /\ \A j \in 1..Len(collNext) :
               collNext[j] = IF j < i THEN coll[j] ELSE coll[j + 1]

\* C25: the delete block is not permanent.  Each successful delete-user
\* removes exactly one user record of the code and leaves every other user
\* record and the companies as they were; and once no user record with code
\* c is left, delete-company for c is let through by the guard and, a company
\* with the code being stored, answers 200.
C25_DeleteBlockIsLifted ==
    [][/\ \A code \in Codes :
             (/\ delete_user(1, code)
              /\ resp'[1] = Message(200, "User deleted successfully")) =>
                 /\ OneRemoved(users, users', code)
                 /\ companies' = companies
       /\ \A code \in Codes :
             (/\ delete_company_count(1, code)
              /\ \A i \in 1..Len(users) : Get(users[i], "code") # code) =>
                 pc'[1] = "dc_delete_one"
       /\ (/\ delete_company_delete_one(1)
           /\ \E i \in 1..Len(companies) : Get(companies[i], "code") = req[1].code) =>
              /\ resp'[1] = Message(200, "Company deleted successfully.")
              /\ OneRemoved(companies, companies', req[1].code)
              /\ users' = users]_vars

\* the last user record of a code just went, a company of the code is stored
C25_Witness ==
    /\ pc[1] = "done"
    /\ req[1].op = "delete_user"
    /\ resp[1] = Message(200, "User deleted successfully")
    /\ CountDocuments(users, "code", req[1].code) = 0
    /\ CountDocuments(companies, "code", req[1].code) >= 1

====
